---- MODULE Spec2Model ----
(***************************************************************************)
(* github-reader-mcp (projects/mcp-github-reader/main.py): six tools over  *)
(* the GitHub REST API sharing one process-wide Target (current_owner,     *)
(* current_repo).  Every async tool runs a synchronous prefix (resolve the *)
(* effective owner/repo, build the request), suspends once on the single   *)
(* upstream GET, and resumes with the response.  set_target_repo is a      *)
(* plain function: it runs to completion without a suspension point.       *)
(*                                                                         *)
(* Python text is a TLA+ string; Python values that cross the JSON         *)
(* boundary are tagged records [t |-> tag, v |-> value].                   *)
(***************************************************************************)
EXTENDS Integers, Sequences

VARIABLES current_owner, current_repo, calls, lastSet

vars == <<current_owner, current_repo, calls, lastSet>>

(***************************************************************************)
(* Bounds of the model.                                                    *)
(***************************************************************************)
\* longest upstream list (directory entries, search items) a response carries
MaxItems == 3

(***************************************************************************)
(* Python values.                                                          *)
(***************************************************************************)
PyNone == [t |-> "none"]
PyStr(s) == [t |-> "str", v |-> s]
PyInt(n) == [t |-> "int", v |-> n]
PyBool(b) == [t |-> "bool", v |-> b]
PyList(q) == [t |-> "list", v |-> q]
PyDict(d) == [t |-> "dict", v |-> d]

\* bool(x)
Truthy(x) ==
  CASE x.t = "none" -> FALSE
    [] x.t = "str" -> x.v # ""
    [] x.t = "int" -> x.v # 0
    [] x.t = "bool" -> x.v
    [] x.t = "list" -> Len(x.v) > 0
    [] x.t = "dict" -> DOMAIN x.v # {}

\* dict.get(k): the value, or None when the key is absent
Get(d, k) == IF k \in DOMAIN d.v THEN d.v[k] ELSE PyNone

\* dict.get(k, default)
GetOr(d, k, default) == IF k \in DOMAIN d.v THEN d.v[k] ELSE default

Digits == "0123456789"

RECURSIVE NatStr(_)
NatStr(n) ==
  IF n < 10 THEN SubSeq(Digits, n + 1, n + 1)
  ELSE NatStr(n \div 10) \o SubSeq(Digits, (n % 10) + 1, (n % 10) + 1)

\* str(x) / f"{x}" for the scalar values the payloads carry
Str(x) ==
  CASE x.t = "none" -> "None"
    [] x.t = "str" -> x.v
    [] x.t = "int" -> IF x.v < 0 THEN "-" \o NatStr(-x.v) ELSE NatStr(x.v)
    [] x.t = "bool" -> IF x.v THEN "True" ELSE "False"

Min(a, b) == IF a < b THEN a ELSE b
Max(a, b) == IF a > b THEN a ELSE b

\* SliceTo cutting one character late
SliceTo_late(s, n) ==
  IF n >= 0 THEN SubSeq(s, 1, Min(n + 1, Len(s)))
  ELSE SubSeq(s, 1, Max(0, Len(s) + n))

\* s[:n] with Python's slice rules: a negative n counts from the end
SliceTo(s, n) ==
  IF n >= 0 THEN SubSeq(s, 1, Min(n, Len(s)))
  ELSE SubSeq(s, 1, Max(0, Len(s) + n))

RECURSIVE Spaces(_)
Spaces(n) == IF n <= 0 THEN "" ELSE " " \o Spaces(n - 1)

\* sep.join(parts), parts a sequence of strings
RECURSIVE Join(_, _)
Join(sep, parts) ==
  IF Len(parts) = 0 THEN ""
  ELSE IF Len(parts) = 1 THEN parts[1]
  ELSE parts[1] \o sep \o Join(sep, Tail(parts))

\* s.startswith(p)
StartsWith(s, p) == Len(s) >= Len(p) /\ SubSeq(s, 1, Len(p)) = p

\* s.rstrip('/') and s.lstrip('/')
RECURSIVE RStripSlash(_)
RStripSlash(s) ==
  IF Len(s) > 0 /\ SubSeq(s, Len(s), Len(s)) = "/"
  THEN RStripSlash(SubSeq(s, 1, Len(s) - 1)) ELSE s

RECURSIVE LStripSlash(_)
LStripSlash(s) ==
  IF Len(s) > 0 /\ SubSeq(s, 1, 1) = "/"
  THEN LStripSlash(SubSeq(s, 2, Len(s))) ELSE s

(***************************************************************************)
(* _b64: base64.b64decode(s).decode("utf-8", errors="replace").            *)
(***************************************************************************)
B64Alphabet == "ABCDEFGHIJKLMNOPQRSTUVWXYZabcdefghijklmnopqrstuvwxyz0123456789+/"

\* the sextet a character stands for, 64 for a character outside the alphabet
B64Index(c) ==
  IF \E i \in 1..64 : SubSeq(B64Alphabet, i, i) = c
  THEN (CHOOSE i \in 1..64 : SubSeq(B64Alphabet, i, i) = c) - 1
  ELSE 64

\* binascii.a2b_base64 in its lenient mode, as b64decode(validate=False) calls
\* it: characters outside the alphabet are skipped, "=" ends the data once a
\* quad is complete with it, and a quad left open at the end is an error.
\* st = [quad |-> position in the quad, left |-> carried bits, pads, out]
RECURSIVE B64Scan(_, _, _)
B64Scan(s, i, st) ==
  IF i > Len(s) THEN [ok |-> st.quad = 0, bytes |-> st.out]
  ELSE LET c == SubSeq(s, i, i)
           x == B64Index(c)
       IN IF c = "="
          THEN IF st.quad >= 2 /\ st.quad + st.pads + 1 >= 4
               THEN [ok |-> TRUE, bytes |-> st.out]
               ELSE B64Scan(s, i + 1, [st EXCEPT !.pads = st.pads + 1])
          ELSE IF x = 64 THEN B64Scan(s, i + 1, st)
          ELSE CASE st.quad = 0 ->
                      B64Scan(s, i + 1, [quad |-> 1, left |-> x, pads |-> 0, out |-> st.out])
                 [] st.quad = 1 ->
                      B64Scan(s, i + 1, [quad |-> 2, left |-> x % 16, pads |-> 0,
                                         out |-> Append(st.out, st.left * 4 + x \div 16)])
                 [] st.quad = 2 ->
                      B64Scan(s, i + 1, [quad |-> 3, left |-> x % 4, pads |-> 0,
                                         out |-> Append(st.out, st.left * 16 + x \div 4)])
                 [] st.quad = 3 ->
                      B64Scan(s, i + 1, [quad |-> 0, left |-> 0, pads |-> 0,
                                         out |-> Append(st.out, st.left * 64 + x)])

b64decode(s) == B64Scan(s, 1, [quad |-> 0, left |-> 0, pads |-> 0, out |-> <<>>])

\* printable ASCII: code points 32..95 and 97..126
AsciiLow ==
  " !" \o "\"" \o "#$%&'" \o "(" \o ")" \o "*" \o "+,-./0123456789:;<=>?@"
  \o "ABCDEFGHIJKLMNOPQRSTUVWXYZ[" \o "\\" \o "]^_"

AsciiHigh == "abcdefghijklmnopqrstuvwxyz{|}~"

\* U+FFFD, what errors="replace" substitutes for an undecodable byte
ReplacementChar == "�"

\* bytes.decode("utf-8", errors="replace") on the bytes the payloads of the
\* model carry: a line feed or a printable ASCII byte is its character; a byte
\* that can neither start nor continue a sequence (0x80..0xC1, 0xF5..0xFF) is
\* replaced.  Multi-byte sequences, control characters and the grave accent
\* (0x60) are not among those payloads.
RECURSIVE Utf8Replace(_)
Utf8Replace(bytes) ==
  IF Len(bytes) = 0 THEN ""
  ELSE LET b == Head(bytes)
           ch == IF b = 10 THEN "\n"
                 ELSE IF b >= 32 /\ b <= 95 THEN SubSeq(AsciiLow, b - 31, b - 31)
                 ELSE IF b >= 97 /\ b <= 126 THEN SubSeq(AsciiHigh, b - 96, b - 96)
                 ELSE ReplacementChar
       IN ch \o Utf8Replace(Tail(bytes))

\* _b64(s): [ok |-> TRUE, text] or [ok |-> FALSE] when b64decode raises
\* binascii.Error
_b64(s) ==
  LET d == b64decode(s)
  IN IF d.ok THEN [ok |-> TRUE, text |-> Utf8Replace(d.bytes)]
     ELSE [ok |-> FALSE, text |-> ""]

(***************************************************************************)
(* Configuration (lines 11-14) and the outcome of a call.                  *)
(***************************************************************************)
GITHUB_API_URL == "https://api.github.com"
DEFAULT_OWNER == "laura-ai-experiments"
DEFAULT_REPO == "ml-exercises-private"

\* a function returns val, or raises exc carrying msg
Ret(v) == [kind |-> "return", val |-> v, exc |-> "", msg |-> ""]
Raise(e, m) == [kind |-> "raise", val |-> PyNone, exc |-> e, msg |-> m]

\* what r.json() gives for a body that is not JSON
NotJson == [t |-> "invalid"]

\* an upstream response: err names the transport failure client.get raised
\* ("" when a response arrived), text is the body, json its parsed value
Response(status, text, json) ==
  [err |-> "", status |-> status, text |-> text, json |-> json]
TransportFailure(e) == [err |-> e, status |-> 0, text |-> "", json |-> NotJson]

\* the request gh_get sends: lines 41-42
Request(path, params) ==
  [url |-> IF StartsWith(path, "http") THEN path
           ELSE RStripSlash(GITHUB_API_URL) \o "/" \o LStripSlash(path),
   params |-> params]

\* r.raise_for_status(): httpx raises HTTPStatusError for every status
\* outside 200..299
raise_for_status(r) == r.status < 200 \/ r.status > 299

\* gh_get mapping 404 like any other failure status
gh_get_no404(r) ==
  IF r.err # "" THEN Raise(r.err, "")
  ELSE IF r.status \in {401, 403}
  THEN LET msg == IF r.json.t = "dict" THEN GetOr(r.json, "message", PyStr(""))
                  ELSE PyStr(r.text)
       IN Raise("GHError",
                NatStr(r.status) \o ": "
                  \o Str(IF Truthy(msg) THEN msg ELSE PyStr("GitHub API error")))
  ELSE IF raise_for_status(r) THEN Raise("HTTPStatusError", "")
  ELSE IF r.text # ""
  THEN IF r.json = NotJson THEN Raise("JSONDecodeError", "") ELSE Ret(r.json)
  ELSE Ret(PyNone)

\* gh_get after the awaited client.get: lines 42-50
gh_get(r) ==
  IF r.err # "" THEN Raise(r.err, "")
  ELSE IF r.status \in {401, 403, 404}
  THEN LET msg == IF r.json.t = "dict" THEN GetOr(r.json, "message", PyStr(""))
                  ELSE PyStr(r.text)
       IN Raise("GHError",
                NatStr(r.status) \o ": "
                  \o Str(IF Truthy(msg) THEN msg ELSE PyStr("GitHub API error")))
  ELSE IF raise_for_status(r) THEN Raise("HTTPStatusError", "")
  ELSE IF r.text # ""
  THEN IF r.json = NotJson THEN Raise("JSONDecodeError", "") ELSE Ret(r.json)
  ELSE Ret(PyNone)

(***************************************************************************)
(* The tools, from the point where the awaited gh_get has returned g.      *)
(***************************************************************************)
\* _eff taking the overrides only as a pair
_eff_paired(owner, repo) ==
  IF Truthy(owner) /\ Truthy(repo) THEN <<owner.v, repo.v>>
  ELSE <<current_owner, current_repo>>

\* _eff falling back to the configured defaults
_eff_defaults(owner, repo) ==
  <<IF Truthy(owner) THEN owner.v ELSE DEFAULT_OWNER,
    IF Truthy(repo) THEN repo.v ELSE DEFAULT_REPO>>

\* _eff: line 26, reading the Target now
_eff(owner, repo) ==
  <<IF Truthy(owner) THEN owner.v ELSE current_owner,
    IF Truthy(repo) THEN repo.v ELSE current_repo>>

\* {"ref": ref} if ref else None: lines 84, 105
RefParams(ref) == IF Truthy(ref) THEN PyDict([ref |-> ref]) ELSE PyNone

\* gh_repo_info: lines 67-73
gh_repo_info_result(owner, repo, g) ==
  IF g.kind = "raise" THEN g
  ELSE IF g.val.t # "dict" THEN Raise("AttributeError", "")
  ELSE LET data == g.val
           desc == Get(data, "description")
       IN Ret(PyStr(Join("\n", <<
            "Repository: " \o owner \o "/" \o repo,
            "Visibility: " \o Str(Get(data, "visibility"))
              \o " (private=" \o Str(Get(data, "private")) \o ")",
            "Default branch: " \o Str(Get(data, "default_branch")),
            "Description: " \o (IF Truthy(desc) THEN Str(desc) ELSE "(none)")>>)))

\* f"{kind:6}": a string is left-aligned in six columns, an integer
\* right-aligned; None accepts no format spec
Format6(kind) ==
  CASE kind.t = "str" -> [ok |-> TRUE, text |-> kind.v \o Spaces(6 - Len(kind.v))]
    [] kind.t = "int" -> [ok |-> TRUE, text |-> Spaces(6 - Len(Str(kind))) \o Str(kind)]
    [] OTHER -> [ok |-> FALSE, text |-> ""]

\* one pass of the loop of lines 90-92: the line for item, or the exception
EntryLine(item) ==
  IF item.t # "dict" THEN Raise("AttributeError", "")
  ELSE LET kind == Get(item, "type")
           name == Get(item, "name")
           size == Get(item, "size")
       IN IF ~Format6(kind).ok THEN Raise("TypeError", "")
          ELSE Ret(PyStr(Format6(kind).text \o " " \o Str(name) \o " "
                         \o (IF size = PyNone THEN "" ELSE "(" \o Str(size) \o "B)")))

\* the items "for item in data" visits: the elements of a list, the keys of a
\* dict, the characters of a string; anything else is not iterable
Iterate(data) ==
  CASE data.t = "list" -> [ok |-> TRUE, items |-> data.v]
    [] data.t = "dict" ->
         [ok |-> TRUE,
          items |-> IF DOMAIN data.v = {} THEN <<>> ELSE <<PyStr("key")>>]
    [] data.t = "str" ->
         [ok |-> TRUE, items |-> [i \in 1..Len(data.v) |-> PyStr(SubSeq(data.v, i, i))]]
    [] OTHER -> [ok |-> FALSE, items |-> <<>>]

\* gh_list_dir joining the lines without the "(empty)" marker
gh_list_dir_result_nomarker(path, g) ==
  IF g.kind = "raise" THEN g
  ELSE LET data == g.val
       IN IF data.t = "dict" /\ Get(data, "type") = PyStr("file")
          THEN Ret(PyStr(path \o " is a file (" \o Str(Get(data, "size")) \o " bytes)."))
          ELSE IF ~Iterate(data).ok THEN Raise("TypeError", "")
          ELSE LET items == Iterate(data).items
                   made == [i \in 1..Len(items) |-> EntryLine(items[i])]
                   bad == {i \in 1..Len(items) : made[i].kind = "raise"}
               IN IF bad # {}
                  THEN made[CHOOSE i \in bad : \A j \in bad : i <= j]
                  ELSE Ret(PyStr(Join("\n", [i \in 1..Len(items) |-> made[i].val.v])))

\* gh_list_dir: lines 87-93
gh_list_dir_result(path, g) ==
  IF g.kind = "raise" THEN g
  ELSE LET data == g.val
       IN IF data.t = "dict" /\ Get(data, "type") = PyStr("file")
          THEN Ret(PyStr(path \o " is a file (" \o Str(Get(data, "size")) \o " bytes)."))
          ELSE IF ~Iterate(data).ok THEN Raise("TypeError", "")
          ELSE LET items == Iterate(data).items
                   made == [i \in 1..Len(items) |-> EntryLine(items[i])]
                   bad == {i \in 1..Len(items) : made[i].kind = "raise"}
               IN IF bad # {}
                  THEN made[CHOOSE i \in bad : \A j \in bad : i <= j]
                  ELSE IF Len(items) > 0
                  THEN Ret(PyStr(Join("\n", [i \in 1..Len(items) |-> made[i].val.v])))
                  ELSE Ret(PyStr("(empty)"))

\* gh_get_text_file: lines 108-112
gh_get_text_file_result(path, max_chars, g) ==
  IF g.kind = "raise" THEN g
  ELSE IF g.val.t # "dict" THEN Raise("AttributeError", "")
  ELSE LET d == g.val
       IN IF Get(d, "type") # PyStr("file") THEN Ret(PyStr("Not a file: " \o path))
          ELSE IF Get(d, "encoding") = PyStr("base64")
          THEN IF "content" \notin DOMAIN d.v THEN Raise("KeyError", "content")
               ELSE IF d.v["content"].t # "str" THEN Raise("TypeError", "")
               ELSE IF ~_b64(d.v["content"].v).ok THEN Raise("binascii.Error", "")
               ELSE Ret(PyStr(SliceTo(_b64(d.v["content"].v).text, max_chars)))
          ELSE Ret(PyStr(SliceTo(Str(Get(d, "content")), max_chars)))

\* the hard ceiling of the search page size: line 124
PerPageCap == 100

\* SearchParams without the page-size ceiling
SearchParams_uncapped(query, limit, owner, repo) ==
  PyDict([q |-> PyStr(query \o " repo:" \o owner \o "/" \o repo),
          per_page |-> PyInt(limit)])

\* params of the search request: lines 123-124
SearchParams(query, limit, owner, repo) ==
  PyDict([q |-> PyStr(query \o " repo:" \o owner \o "/" \o repo),
          per_page |-> PyInt(Min(limit, PerPageCap))])

\* length of the abbreviated content hash: line 130
ShaLen == 7

\* one item of the generator of line 130: its line, or the exception
ItemLine(it) ==
  IF it.t # "dict" THEN Raise("TypeError", "")
  ELSE IF "repository" \notin DOMAIN it.v THEN Raise("KeyError", "repository")
  ELSE IF it.v["repository"].t # "dict" THEN Raise("TypeError", "")
  ELSE IF "full_name" \notin DOMAIN it.v["repository"].v THEN Raise("KeyError", "full_name")
  ELSE IF "path" \notin DOMAIN it.v THEN Raise("KeyError", "path")
  ELSE IF "sha" \notin DOMAIN it.v THEN Raise("KeyError", "sha")
  ELSE IF it.v["sha"].t # "str" THEN Raise("TypeError", "")
  ELSE Ret(PyStr(Str(it.v["repository"].v["full_name"]) \o ":" \o Str(it.v["path"])
                 \o " (" \o SliceTo(it.v["sha"].v, ShaLen) \o ")"))

\* gh_search_code: lines 127-130
gh_search_code_result(limit, g) ==
  IF g.kind = "raise" THEN g
  ELSE IF g.val.t # "dict" THEN Raise("AttributeError", "")
  ELSE LET raw == GetOr(g.val, "items", PyList(<<>>))
       IN IF raw.t \notin {"list", "str"} THEN Raise("TypeError", "")
          ELSE LET items == [t |-> raw.t, v |-> SliceTo(raw.v, limit)]
               IN IF ~Truthy(items) THEN Ret(PyStr("(no results)"))
                  ELSE LET its == Iterate(items).items
                           made == [i \in 1..Len(its) |-> ItemLine(its[i])]
                           bad == {i \in 1..Len(its) : made[i].kind = "raise"}
                       IN IF bad # {}
                          THEN made[CHOOSE i \in bad : \A j \in bad : i <= j]
                          ELSE Ret(PyStr(Join("\n", [i \in 1..Len(its) |-> made[i].val.v])))

\* how many root names health_check shows: line 138
HealthCap == 20

\* health_check without the isinstance guard
health_check_result_unguarded(g) ==
  IF g.kind = "raise" THEN g
  ELSE IF ~Iterate(g.val).ok THEN Raise("TypeError", "")
  ELSE LET data == Iterate(g.val).items
       IN IF \E i \in 1..Len(data) : data[i].t # "dict" THEN Raise("AttributeError", "")
          ELSE LET names == SliceTo([i \in 1..Len(data) |-> Get(data[i], "name")], HealthCap)
               IN IF Len(names) = 0 THEN Ret(PyStr("OK (empty root)"))
                  ELSE IF \E i \in 1..Len(names) : names[i].t # "str"
                  THEN Raise("TypeError", "")
                  ELSE Ret(PyStr("OK: " \o Join(", ", [i \in 1..Len(names) |-> names[i].v])))

\* health_check: lines 138-139
health_check_result(g) ==
  IF g.kind = "raise" THEN g
  ELSE LET data == IF g.val.t = "list" THEN g.val.v ELSE <<>>
       IN IF \E i \in 1..Len(data) : data[i].t # "dict" THEN Raise("AttributeError", "")
          ELSE LET names == SliceTo([i \in 1..Len(data) |-> Get(data[i], "name")], HealthCap)
               IN IF Len(names) = 0 THEN Ret(PyStr("OK (empty root)"))
                  ELSE IF \E i \in 1..Len(names) : names[i].t # "str"
                  THEN Raise("TypeError", "")
                  ELSE Ret(PyStr("OK: " \o Join(", ", [i \in 1..Len(names) |-> names[i].v])))

(***************************************************************************)
(* State.  calls[c] is the coroutine of call c: idle, suspended on its     *)
(* upstream GET ("await": req is the request in flight), or finished       *)
(* ("done": resp is the response it resumed with, result what it returned  *)
(* or raised).  args keeps the arguments of the invocation.  lastSet       *)
(* records the latest set_target_repo call: its arguments and the text it  *)
(* returned.                                                               *)
(***************************************************************************)
Calls == {"c1", "c2"}

Idle == [pc |-> "idle"]
NoSet == [args |-> <<>>, ret |-> ""]

Await(op, args, owner, repo, req) ==
  [pc |-> "await", op |-> op, args |-> args, owner |-> owner, repo |-> repo, req |-> req]

Done(call, resp, result) ==
  [pc |-> "done", op |-> call.op, args |-> call.args, owner |-> call.owner,
   repo |-> call.repo, req |-> call.req, resp |-> resp, result |-> result]

Init ==
  /\ current_owner = DEFAULT_OWNER
  /\ current_repo = DEFAULT_REPO
  /\ calls = [c \in Calls |-> Idle]
  /\ lastSet = NoSet

\* set_target_repo with current_repo missing from its global statement
set_target_repo_owner_only(owner, repo) ==
  /\ current_owner' = owner
  /\ lastSet' = [args |-> <<owner, repo>>,
                 ret |-> "Defaults set to " \o owner \o "/" \o repo]
  /\ UNCHANGED <<current_repo, calls>>

\* set_target_repo: lines 55-59
set_target_repo(owner, repo) ==
  /\ current_owner' = owner
  /\ current_repo' = repo
  /\ lastSet' = [args |-> <<owner, repo>>,
                 ret |-> "Defaults set to " \o owner \o "/" \o repo]
  /\ UNCHANGED calls

\* gh_repo_info up to its await: lines 62-66
gh_repo_info_call(c, owner, repo) ==
  /\ calls[c].pc # "await"
  /\ LET e == _eff(owner, repo)
     IN calls' = [calls EXCEPT ![c] =
          Await("gh_repo_info", [owner |-> owner, repo |-> repo], e[1], e[2],
                Request("repos/" \o e[1] \o "/" \o e[2], PyNone))]
  /\ UNCHANGED <<current_owner, current_repo, lastSet>>

\* gh_repo_info from its await on: lines 66-73
gh_repo_info_resume(c, resp) ==
  /\ calls[c].pc = "await"
  /\ calls[c].op = "gh_repo_info"
  /\ calls' = [calls EXCEPT ![c] =
       Done(@, resp, gh_repo_info_result(@.owner, @.repo, gh_get(resp)))]
  /\ UNCHANGED <<current_owner, current_repo, lastSet>>

\* gh_list_dir up to its await: lines 76-86
gh_list_dir_call(c, path, ref, owner, repo) ==
  /\ calls[c].pc # "await"
  /\ LET e == _eff(owner, repo)
     IN calls' = [calls EXCEPT ![c] =
          Await("gh_list_dir",
                [owner |-> owner, repo |-> repo, path |-> path, ref |-> ref],
                e[1], e[2],
                Request("repos/" \o e[1] \o "/" \o e[2] \o "/contents/" \o path,
                        RefParams(ref)))]
  /\ UNCHANGED <<current_owner, current_repo, lastSet>>

\* gh_list_dir from its await on: lines 86-93
gh_list_dir_resume(c, resp) ==
  /\ calls[c].pc = "await"
  /\ calls[c].op = "gh_list_dir"
  /\ calls' = [calls EXCEPT ![c] =
       Done(@, resp, gh_list_dir_result(@.args.path, gh_get(resp)))]
  /\ UNCHANGED <<current_owner, current_repo, lastSet>>

\* gh_get_text_file up to its await: lines 96-107
gh_get_text_file_call(c, path, ref, max_chars, owner, repo) ==
  /\ calls[c].pc # "await"
  /\ LET e == _eff(owner, repo)
     IN calls' = [calls EXCEPT ![c] =
          Await("gh_get_text_file",
                [owner |-> owner, repo |-> repo, path |-> path, ref |-> ref,
                 max_chars |-> max_chars],
                e[1], e[2],
                Request("repos/" \o e[1] \o "/" \o e[2] \o "/contents/" \o path,
                        RefParams(ref)))]
  /\ UNCHANGED <<current_owner, current_repo, lastSet>>

\* gh_get_text_file from its await on: lines 107-112
gh_get_text_file_resume(c, resp) ==
  /\ calls[c].pc = "await"
  /\ calls[c].op = "gh_get_text_file"
  /\ calls' = [calls EXCEPT ![c] =
       Done(@, resp, gh_get_text_file_result(@.args.path, @.args.max_chars, gh_get(resp)))]
  /\ UNCHANGED <<current_owner, current_repo, lastSet>>

\* gh_search_code up to its await: lines 115-126
gh_search_code_call(c, query, limit, owner, repo) ==
  /\ calls[c].pc # "await"
  /\ LET e == _eff(owner, repo)
     IN calls' = [calls EXCEPT ![c] =
          Await("gh_search_code",
                [owner |-> owner, repo |-> repo, query |-> query, limit |-> limit],
                e[1], e[2],
                Request("search/code", SearchParams(query, limit, e[1], e[2])))]
  /\ UNCHANGED <<current_owner, current_repo, lastSet>>

\* gh_search_code from its await on: lines 126-130
gh_search_code_resume(c, resp) ==
  /\ calls[c].pc = "await"
  /\ calls[c].op = "gh_search_code"
  /\ calls' = [calls EXCEPT ![c] =
       Done(@, resp, gh_search_code_result(@.args.limit, gh_get(resp)))]
  /\ UNCHANGED <<current_owner, current_repo, lastSet>>

\* health_check up to its await: lines 133-137
health_check_call(c) ==
  /\ calls[c].pc # "await"
  /\ calls' = [calls EXCEPT ![c] =
       Await("health_check", [owner |-> PyNone, repo |-> PyNone],
             current_owner, current_repo,
             Request("repos/" \o current_owner \o "/" \o current_repo \o "/contents/",
                     PyNone))]
  /\ UNCHANGED <<current_owner, current_repo, lastSet>>

\* health_check from its await on: lines 137-139
health_check_resume(c, resp) ==
  /\ calls[c].pc = "await"
  /\ calls[c].op = "health_check"
  /\ calls' = [calls EXCEPT ![c] = Done(@, resp, health_check_result(gh_get(resp)))]
  /\ UNCHANGED <<current_owner, current_repo, lastSet>>
(***************************************************************************)
(* Inputs: arguments of the invocations and upstream responses.            *)
(***************************************************************************)
\* argument pairs of set_target_repo; no owner occurs with two repos, so a
\* Target mixing two calls is none of them
SetPairs ==
  {<<"acme", "widgets">>, <<"octo", "tools">>, <<"", "tools">>, <<"octo", "">>}

\* owner / repo overrides: omitted, empty, given
OwnerArgs == {PyNone, PyStr(""), PyStr("mona")}
RepoArgs == {PyNone, PyStr(""), PyStr("hello")}

\* the defaults of the signatures: lines 77-78, 98-99, 117
DefaultPath == ""
DefaultMaxChars == 10000
DefaultLimit == 10

Paths == {"", "notes.txt"}
Refs == {PyNone, PyStr("main")}
MaxCharsArgs == {-2, -1, 0, 1, 5, 11, DefaultMaxChars}
LimitArgs == {-1, 0, 1, 2, DefaultLimit, PerPageCap, PerPageCap + 1}
Queries == {"TODO"}

\* upstream payloads
RepoDescriptor ==
  PyDict([full_name |-> PyStr("acme/widgets"), visibility |-> PyStr("private"),
          private |-> PyBool(TRUE), default_branch |-> PyStr("main"),
          description |-> PyNone])

FileEntry == PyDict([type |-> PyStr("file"), name |-> PyStr("README.md"), size |-> PyInt(120)])
DirEntry == PyDict([type |-> PyStr("dir"), name |-> PyStr("src")])

RECURSIVE SeqsUpTo(_, _)
SeqsUpTo(S, n) ==
  IF n = 0 THEN {<<>>}
  ELSE LET shorter == SeqsUpTo(S, n - 1)
       IN shorter \cup {Append(q, x) : q \in {r \in shorter : Len(r) = n - 1}, x \in S}

\* directory listings: every sequence of at most MaxItems entries
Listings == {PyList(q) : q \in SeqsUpTo({FileEntry, DirEntry}, MaxItems)}

\* single objects the contents endpoint returns
FileB64(content) ==
  PyDict([type |-> PyStr("file"), name |-> PyStr("notes.txt"), size |-> PyInt(11),
          encoding |-> PyStr("base64"), content |-> PyStr(content)])
FilePlain(content) ==
  PyDict([type |-> PyStr("file"), name |-> PyStr("notes.txt"), size |-> PyInt(11),
          encoding |-> PyStr("none"), content |-> PyStr(content)])
FileBare == PyDict([type |-> PyStr("file"), name |-> PyStr("big.bin"), size |-> PyInt(3)])
FileHalf ==
  PyDict([type |-> PyStr("file"), name |-> PyStr("big.bin"), size |-> PyInt(3),
          encoding |-> PyStr("base64")])
Symlink == PyDict([type |-> PyStr("symlink"), name |-> PyStr("link"), size |-> PyInt(4)])
Untyped == PyDict([name |-> PyStr("thing")])

Objects ==
  {FileB64("aGVsbG8gd29ybGQ=\n"), FileB64("aGn/IQ=="), FileB64("aGk"),
   FilePlain("plain text"), FileBare, FileHalf,
   Symlink, DirEntry, Untyped, RepoDescriptor}

SearchItem(path, sha) ==
  PyDict([repository |-> PyDict([full_name |-> PyStr("acme/widgets")]),
          path |-> PyStr(path), sha |-> PyStr(sha)])

SearchItems == {SearchItem("src/a.py", "0123456789abcdef"), SearchItem("b.md", "fedcba9")}

\* search results: every sequence of at most MaxItems items, and result
\* objects whose items field is absent or no list
SearchResults ==
  {PyDict([total_count |-> PyInt(Len(q)), items |-> PyList(q)]) :
     q \in SeqsUpTo(SearchItems, MaxItems)}
  \cup {PyDict([total_count |-> PyInt(0)]),
        PyDict([total_count |-> PyInt(0), items |-> PyNone]),
        PyDict([total_count |-> PyInt(0), items |-> PyStr("")]),
        PyDict([total_count |-> PyInt(0), items |-> PyStr("oops")]),
        PyDict([total_count |-> PyInt(0), items |-> PyInt(0)])}

\* bodies of error responses: text and parsed value
ErrorBodies ==
  {<<"{\"message\": \"Not Found\"}", PyDict([message |-> PyStr("Not Found")])>>,
   <<"{\"message\": \"\"}", PyDict([message |-> PyStr("")])>>,
   <<"{\"message\": null}", PyDict([message |-> PyNone])>>,
   <<"{\"error\": \"denied\"}", PyDict([error |-> PyStr("denied")])>>,
   <<"[]", PyList(<<>>)>>,
   <<"<html>Bad credentials</html>", NotJson>>,
   <<"", NotJson>>}

FailureStatuses == {301, 401, 403, 404, 422, 500}

\* every response of the model: a JSON payload with a success status (its
\* text is only tested for emptiness), a success without a body or with one
\* that is not JSON, an error body with a failure status, or a transport
\* failure
Responses ==
  {Response(st, "(json)", v) : st \in {200, 201}, v \in Listings \cup Objects \cup SearchResults}
  \cup {Response(200, "", NotJson), Response(204, "", NotJson),
        Response(200, "<html>maintenance</html>", NotJson)}
  \cup {Response(st, b[1], b[2]) : st \in FailureStatuses, b \in ErrorBodies}
  \cup {TransportFailure("ConnectTimeout")}

\* the responses of the specifications about the Target
FewResponses ==
  {Response(200, "(json)", RepoDescriptor),
   Response(404, "{\"message\": \"Not Found\"}", PyDict([message |-> PyStr("Not Found")]))}

(***************************************************************************)
(* Specifications.                                                         *)
(***************************************************************************)
\* the Target under concurrent calls: two calls in flight, set_target_repo
\* at any point between their steps
Next ==
  \/ \E p \in SetPairs : set_target_repo(p[1], p[2])
  \/ \E c \in Calls, o \in {PyNone, PyStr("mona")} :
       gh_repo_info_call(c, o, IF o = PyNone THEN PyNone ELSE PyStr("hello"))
  \/ \E c \in Calls, o \in {PyNone, PyStr("mona")} :
       gh_list_dir_call(c, DefaultPath, PyNone, o, IF o = PyNone THEN PyNone ELSE PyStr("hello"))
  \/ \E c \in Calls, o \in {PyNone, PyStr("mona")} :
       gh_get_text_file_call(c, "notes.txt", PyNone, DefaultMaxChars, o,
                             IF o = PyNone THEN PyNone ELSE PyStr("hello"))
  \/ \E c \in Calls, o \in {PyNone, PyStr("mona")} :
       gh_search_code_call(c, "TODO", DefaultLimit, o,
                           IF o = PyNone THEN PyNone ELSE PyStr("hello"))
  \/ \E c \in Calls : health_check_call(c)
  \/ \E c \in Calls, resp \in FewResponses : gh_repo_info_resume(c, resp)
  \/ \E c \in Calls, resp \in FewResponses : gh_list_dir_resume(c, resp)
  \/ \E c \in Calls, resp \in FewResponses : gh_get_text_file_resume(c, resp)
  \/ \E c \in Calls, resp \in FewResponses : gh_search_code_resume(c, resp)
  \/ \E c \in Calls, resp \in FewResponses : health_check_resume(c, resp)

Spec == Init /\ [][Next]_vars

\* resolution of the effective owner/repo: one call at a time, every
\* combination of overrides against every Target
NextResolve ==
  \/ \E p \in SetPairs : set_target_repo(p[1], p[2])
  \/ \E o \in OwnerArgs, r \in RepoArgs : gh_repo_info_call("c1", o, r)
  \/ \E o \in OwnerArgs, r \in RepoArgs : gh_list_dir_call("c1", DefaultPath, PyNone, o, r)
  \/ \E o \in OwnerArgs, r \in RepoArgs :
       gh_get_text_file_call("c1", "notes.txt", PyNone, DefaultMaxChars, o, r)
  \/ \E o \in OwnerArgs, r \in RepoArgs : gh_search_code_call("c1", "TODO", DefaultLimit, o, r)
  \/ health_check_call("c1")
  \/ \E resp \in FewResponses : gh_repo_info_resume("c1", resp)
  \/ \E resp \in FewResponses : gh_list_dir_resume("c1", resp)
  \/ \E resp \in FewResponses : gh_get_text_file_resume("c1", resp)
  \/ \E resp \in FewResponses : gh_search_code_resume("c1", resp)
  \/ \E resp \in FewResponses : health_check_resume("c1", resp)

SpecResolve == Init /\ [][NextResolve]_vars

\* what each tool makes of every response: one call at a time against the
\* default Target
NextPayload ==
  \/ gh_repo_info_call("c1", PyNone, PyNone)
  \/ \E path \in Paths, ref \in Refs : gh_list_dir_call("c1", path, ref, PyNone, PyNone)
  \/ \E ref \in Refs, m \in MaxCharsArgs :
       gh_get_text_file_call("c1", "notes.txt", ref, m, PyNone, PyNone)
  \/ \E q \in Queries, l \in LimitArgs : gh_search_code_call("c1", q, l, PyNone, PyNone)
  \/ health_check_call("c1")
  \/ \E resp \in Responses : gh_repo_info_resume("c1", resp)
  \/ \E resp \in Responses : gh_list_dir_resume("c1", resp)
  \/ \E resp \in Responses : gh_get_text_file_resume("c1", resp)
  \/ \E resp \in Responses : gh_search_code_resume("c1", resp)
  \/ \E resp \in Responses : health_check_resume("c1", resp)

SpecPayload == Init /\ [][NextPayload]_vars
(***************************************************************************)
(* Properties.                                                             *)
(***************************************************************************)
OverrideOps == {"gh_repo_info", "gh_list_dir", "gh_get_text_file", "gh_search_code"}

\* call c has just run its synchronous prefix: it was not suspended and now is
Invoked(c) == calls[c].pc # "await" /\ calls'[c].pc = "await"

\* the request of call k is for the repository o/r
Addresses(k, o, r) ==
  LET root == "https://api.github.com/repos/" \o o \o "/" \o r
  IN CASE k.op = "gh_repo_info" -> k.req.url = root
       [] k.op \in {"gh_list_dir", "gh_get_text_file"} ->
            k.req.url = root \o "/contents/" \o k.args.path
       [] k.op = "health_check" -> k.req.url = root \o "/contents/"
       [] k.op = "gh_search_code" ->
            /\ k.req.url = "https://api.github.com/search/code"
            /\ k.req.params.v.q.v = k.args.query \o " repo:" \o o \o "/" \o r

\* C1 as stated: an override that is supplied (is not None) is the effective
\* owner (repo), the Target's field is used otherwise, each field on its own,
\* and the request is for that pair.
C1_SuppliedOverrideWins ==
  [][\A c \in Calls :
       (Invoked(c) /\ calls'[c].op \in OverrideOps) =>
         LET k == calls'[c]
             o == IF k.args.owner # PyNone THEN k.args.owner.v ELSE current_owner
             r == IF k.args.repo # PyNone THEN k.args.repo.v ELSE current_repo
         IN k.owner = o /\ k.repo = r /\ Addresses(k, o, r)]_vars

\* C1 amended: an override that is supplied and not empty is the effective
\* owner (repo); an omitted or empty one gives the Target's field; each field
\* is resolved on its own and the request is for that pair.
C1_NonEmptyOverrideWins ==
  [][\A c \in Calls :
       (Invoked(c) /\ calls'[c].op \in OverrideOps) =>
         LET k == calls'[c]
             o == IF k.args.owner \notin {PyNone, PyStr("")}
                  THEN k.args.owner.v ELSE current_owner
             r == IF k.args.repo \notin {PyNone, PyStr("")}
                  THEN k.args.repo.v ELSE current_repo
         IN k.owner = o /\ k.repo = r /\ Addresses(k, o, r)]_vars

\* a call overriding the owner alone, resolved against a Target that
\* set_target_repo has replaced
C1_Witness ==
  /\ calls["c1"].pc = "await"
  /\ calls["c1"].op = "gh_search_code"
  /\ calls["c1"].args.owner = PyStr("mona")
  /\ calls["c1"].args.repo = PyNone
  /\ calls["c1"].owner = "mona"
  /\ calls["c1"].repo = "tools"

\* C2: a call invoked without overrides after set_target_repo(o, r) returned,
\* and before the next set_target_repo, sends its request for o/r, whatever
\* else is in flight; the request in flight is not altered afterwards.
C2_UsesNewTarget ==
  [][\A c \in Calls :
       /\ (Invoked(c) /\ lastSet # NoSet
             /\ calls'[c].args.owner = PyNone /\ calls'[c].args.repo = PyNone) =>
            /\ calls'[c].owner = lastSet.args[1]
            /\ calls'[c].repo = lastSet.args[2]
            /\ Addresses(calls'[c], lastSet.args[1], lastSet.args[2])
       /\ (calls[c].pc = "await" /\ ~Invoked(c)) => calls'[c].req = calls[c].req]_vars

\* health_check in flight for the pair of the second set_target_repo call
\* while another call, sent for the first pair, is still in flight
C2_Witness ==
  /\ lastSet.args = <<"octo", "tools">>
  /\ calls["c2"].pc = "await"
  /\ calls["c2"].op = "health_check"
  /\ calls["c2"].owner = "octo"
  /\ calls["c2"].repo = "tools"
  /\ calls["c1"].pc = "await"
  /\ calls["c1"].owner = "acme"

\* C3 as stated: a set_target_repo call with an empty owner or repo leaves
\* the Target unchanged.
C3_EmptyRejected ==
  [][(lastSet' # lastSet /\ (lastSet'.args[1] = "" \/ lastSet'.args[2] = "")) =>
       (current_owner' = current_owner /\ current_repo' = current_repo)]_vars

\* the pairs the Target may hold: the configured default, or the arguments of
\* one set_target_repo call
WholePairs == {<<DEFAULT_OWNER, DEFAULT_REPO>>} \cup SetPairs

\* C9: the Target is the default pair until set_target_repo is called and
\* the argument pair of the latest call from then on; a call without
\* overrides resolves, requests and shows one such pair, never the owner of
\* one call with the repo of another.
C9_TargetIsOnePair ==
  /\ <<current_owner, current_repo>> =
       (IF lastSet = NoSet THEN <<DEFAULT_OWNER, DEFAULT_REPO>> ELSE lastSet.args)
  /\ \A c \in Calls :
       (calls[c].pc # "idle" /\ calls[c].args.owner = PyNone /\ calls[c].args.repo = PyNone) =>
         /\ <<calls[c].owner, calls[c].repo>> \in WholePairs
         /\ Addresses(calls[c], calls[c].owner, calls[c].repo)
         /\ (calls[c].pc = "done" /\ calls[c].op = "gh_repo_info"
               /\ calls[c].result.kind = "return") =>
              StartsWith(calls[c].result.val.v,
                         "Repository: " \o calls[c].owner \o "/" \o calls[c].repo \o "\n")

\* gh_repo_info finished showing the pair it was sent for, after the Target
\* has been replaced twice
C9_Witness ==
  /\ <<current_owner, current_repo>> = <<"octo", "tools">>
  /\ calls["c1"].pc = "done"
  /\ calls["c1"].op = "gh_repo_info"
  /\ calls["c1"].args.owner = PyNone
  /\ calls["c1"].result.kind = "return"
  /\ calls["c1"].owner = "acme"
  /\ calls["c1"].repo = "widgets"
(***************************************************************************)
(* Properties of what the tools make of a response.                        *)
(***************************************************************************)
\* number of lines of a text: one more than its line feeds
RECURSIVE CountLF(_)
CountLF(s) ==
  IF Len(s) = 0 THEN 0
  ELSE (IF SubSeq(s, 1, 1) = "\n" THEN 1 ELSE 0) + CountLF(SubSeq(s, 2, Len(s)))

\* call c has finished
Finished(c) == calls[c].pc = "done"

\* a response arrived and its status is a success
Success(r) == r.err = "" /\ r.status >= 200 /\ r.status <= 299

GenericMessage == "GitHub API error"

\* the exceptions gh_get itself raises on a response
DomainError == "GHError"
UpstreamError == "HTTPStatusError"

\* C4 as stated: 401, 403 and 404 raise the domain error "<status>: <message>",
\* the message being the JSON body's message field, the raw body text when
\* the body is not a JSON object with that field, the generic text when no
\* message is available; every other non-2xx status raises the generic
\* upstream error; a 2xx status raises nothing.
C4_ErrorMapping ==
  \A c \in Calls :
    (Finished(c) /\ calls[c].resp.err = "") =>
      LET r == calls[c].resp
          res == calls[c].result
          hasField == r.json.t = "dict" /\ "message" \in DOMAIN r.json.v
          message ==
            IF hasField
            THEN (IF Truthy(r.json.v["message"]) THEN Str(r.json.v["message"])
                  ELSE GenericMessage)
            ELSE (IF r.text # "" THEN r.text ELSE GenericMessage)
      IN /\ r.status \in {401, 403, 404} =>
              res = Raise(DomainError, NatStr(r.status) \o ": " \o message)
         /\ (r.status \notin {401, 403, 404} /\ ~Success(r)) =>
              (res.kind = "raise" /\ res.exc = UpstreamError)
         /\ Success(r) =>
              ~(res.kind = "raise"
                  /\ res.exc \in {DomainError, UpstreamError, "JSONDecodeError"})

\* C4 amended: 401, 403 and 404 raise the domain error "<status>: <message>";
\* the message is the message field of a JSON object body, the generic text
\* when that object has no message field or an empty one, and the raw body
\* text (the generic text when it is empty) only when the body is no JSON
\* object; every other non-2xx status raises the generic upstream error; a
\* 2xx status raises neither of the two, and fails only in decoding a
\* non-empty body that is not JSON.
C4_ErrorMappingAmended ==
  \A c \in Calls :
    (Finished(c) /\ calls[c].resp.err = "") =>
      LET r == calls[c].resp
          res == calls[c].result
          hasField == r.json.t = "dict" /\ "message" \in DOMAIN r.json.v
          message ==
            IF r.json.t = "dict"
            THEN (IF hasField /\ Truthy(r.json.v["message"]) THEN Str(r.json.v["message"])
                  ELSE GenericMessage)
            ELSE (IF r.text # "" THEN r.text ELSE GenericMessage)
      IN /\ r.status \in {401, 403, 404} =>
              res = Raise(DomainError, NatStr(r.status) \o ": " \o message)
         /\ (r.status \notin {401, 403, 404} /\ ~Success(r)) =>
              (res.kind = "raise" /\ res.exc = UpstreamError)
         /\ Success(r) =>
              /\ ~(res.kind = "raise" /\ res.exc \in {DomainError, UpstreamError})
              /\ (res.kind = "raise" /\ res.exc = "JSONDecodeError")
                   <=> (r.text # "" /\ r.json = NotJson)

\* a 404 whose JSON object has no message field, raised with the generic text
C4_Witness ==
  /\ Finished("c1")
  /\ calls["c1"].resp.status = 404
  /\ calls["c1"].resp.json = PyDict([error |-> PyStr("denied")])
  /\ calls["c1"].result = Raise(DomainError, "404: GitHub API error")

\* C5 as stated, for the case it singles out: a 2xx response with an empty
\* body makes no tool fail; the call still ends in formatted text.
C5_EmptyBodyHandled ==
  \A c \in Calls :
    (Finished(c) /\ Success(calls[c].resp) /\ calls[c].resp.text = "") =>
      calls[c].result.kind = "return"

\* call c is a finished gh_get_text_file whose response is a file payload
\* with its content present, valid base64 when so encoded
FileRead(c) ==
  /\ Finished(c)
  /\ calls[c].op = "gh_get_text_file"
  /\ Success(calls[c].resp)
  /\ calls[c].resp.json.t = "dict"
  /\ Get(calls[c].resp.json, "type") = PyStr("file")
  /\ Get(calls[c].resp.json, "content").t = "str"
  /\ Get(calls[c].resp.json, "encoding") = PyStr("base64") =>
       _b64(Get(calls[c].resp.json, "content").v).ok

\* the (decoded) content of the payload of call c
FileContent(c) ==
  LET d == calls[c].resp.json
  IN IF Get(d, "encoding") = PyStr("base64") THEN _b64(Get(d, "content").v).text
     ELSE Get(d, "content").v

\* the result of call c is the content cut to exactly m characters when it
\* is longer, the whole content otherwise, and never longer than m
Truncated(c, m) ==
  /\ calls[c].result.kind = "return"
  /\ LET res == calls[c].result.val.v
         t == FileContent(c)
     IN /\ Len(res) <= m
        /\ Len(t) > m => (Len(res) = m /\ res = SubSeq(t, 1, Len(res)))
        /\ Len(t) <= m => res = t

\* C6 as stated: for every file payload and every integer max_chars.
C6_Truncation == \A c \in Calls : FileRead(c) => Truncated(c, calls[c].args.max_chars)

\* C6 amended: for every file payload and every max_chars >= 0; a negative
\* max_chars cuts that many characters off the end instead.
C6_TruncationNonNegative ==
  \A c \in Calls :
    FileRead(c) =>
      LET m == calls[c].args.max_chars
      IN IF m >= 0 THEN Truncated(c, m)
         ELSE /\ calls[c].result.kind = "return"
              /\ Len(calls[c].result.val.v) = Max(0, Len(FileContent(c)) + m)
              /\ StartsWith(FileContent(c), calls[c].result.val.v)

\* "hello world" behind base64, cut to five characters
C6_Witness ==
  /\ FileRead("c1")
  /\ calls["c1"].args.max_chars = 5
  /\ FileContent("c1") = "hello world"
  /\ calls["c1"].result.val.v = "hello"

NoResults == "(no results)"

\* result lines of a search output: none for the marker
ResultLines(text) == IF text = NoResults THEN 0 ELSE CountLF(text) + 1

\* the line of one search item
ResultLine(it) ==
  it.v["repository"].v["full_name"].v \o ":" \o it.v["path"].v
    \o " (" \o SubSeq(it.v["sha"].v, 1, Min(7, Len(it.v["sha"].v))) \o ")"

\* call c is a finished gh_search_code whose response carries a list of items
Searched(c) ==
  /\ Finished(c)
  /\ calls[c].op = "gh_search_code"
  /\ Success(calls[c].resp)
  /\ calls[c].resp.json.t = "dict"
  /\ Get(calls[c].resp.json, "items").t = "list"

\* every search request asks for a page of min(limit, 100)
PageSizeCapped ==
  \A c \in Calls :
    (calls[c].pc # "idle" /\ calls[c].op = "gh_search_code") =>
      calls[c].req.params.v["per_page"] =
        PyInt(IF calls[c].args.limit < 100 THEN calls[c].args.limit ELSE 100)

\* the output of call c is at most limit result lines, the first items of
\* the returned set in upstream order, and the marker when there is none
Rendered(c) ==
  /\ calls[c].result.kind = "return"
  /\ LET items == Get(calls[c].resp.json, "items").v
         text == calls[c].result.val.v
     IN /\ Len(items) = 0 => text = NoResults
        /\ text # NoResults =>
             /\ ResultLines(text) <= calls[c].args.limit
             /\ ResultLines(text) <= Len(items)
             /\ text = Join("\n", [i \in 1..ResultLines(text) |-> ResultLine(items[i])])

\* C7 as stated: for every integer limit and every result set.
C7_SearchLimit == PageSizeCapped /\ \A c \in Calls : Searched(c) => Rendered(c)

\* C7 amended: the page size is min(limit, 100) for every integer limit; for
\* every limit >= 0 the output is the first min(limit, n) of the n returned
\* items, the marker when that is none; a negative limit cuts that many
\* items off the end of the returned set instead.
C7_SearchLimitNonNegative ==
  /\ PageSizeCapped
  /\ \A c \in Calls :
       Searched(c) =>
         LET n == Len(Get(calls[c].resp.json, "items").v)
             l == calls[c].args.limit
         IN /\ calls[c].result.kind = "return"
            /\ IF l >= 0
               THEN Rendered(c) /\ ResultLines(calls[c].result.val.v) = Min(l, n)
               ELSE ResultLines(calls[c].result.val.v) = Max(0, n + l)

\* three items returned, limit 1: one line
C7_Witness ==
  /\ Searched("c1")
  /\ calls["c1"].args.limit = 1
  /\ Len(Get(calls["c1"].resp.json, "items").v) = 3
  /\ ResultLines(calls["c1"].result.val.v) = 1

\* the line of one directory entry
ListingLine(e) ==
  e.v["type"].v \o SubSeq("      ", 1, 6 - Len(e.v["type"].v)) \o " " \o e.v["name"].v \o " "
    \o (IF "size" \in DOMAIN e.v THEN "(" \o Str(e.v["size"]) \o "B)" ELSE "")

\* C8: a single file gives the one-line "is a file (N bytes)." message; a
\* directory without entries gives "(empty)", never the empty text; a
\* directory of n >= 1 entries gives n lines, one per entry in upstream order.
C8_Listing ==
  \A c \in Calls :
    (Finished(c) /\ calls[c].op = "gh_list_dir" /\ Success(calls[c].resp)) =>
      LET d == calls[c].resp.json
          res == calls[c].result
      IN /\ (d.t = "dict" /\ Get(d, "type") = PyStr("file")) =>
              /\ res = Ret(PyStr(calls[c].args.path \o " is a file ("
                                 \o Str(Get(d, "size")) \o " bytes)."))
              /\ CountLF(res.val.v) = 0
         /\ d \in Listings =>
              /\ res.kind = "return"
              /\ res.val.v # ""
              /\ Len(d.v) = 0 => res.val.v = "(empty)"
              /\ Len(d.v) >= 1 =>
                   /\ CountLF(res.val.v) + 1 = Len(d.v)
                   /\ res.val.v = Join("\n", [i \in 1..Len(d.v) |-> ListingLine(d.v[i])])

\* a directory of a file and a subdirectory, listed in that order
C8_Witness ==
  /\ Finished("c1")
  /\ calls["c1"].op = "gh_list_dir"
  /\ calls["c1"].resp.json = PyList(<<FileEntry, DirEntry>>)
  /\ calls["c1"].result.val.v = "file   README.md (120B)\ndir    src "

\* the gh_list_dir message for a single file
FileMessage(c) ==
  Ret(PyStr(calls[c].args.path \o " is a file ("
            \o Str(Get(calls[c].resp.json, "size")) \o " bytes)."))

====
